---------------------------- MODULE Spec2Model ----------------------------
(***************************************************************************)
(* The character controller of Unit_3_4_FSM_Game.                          *)
(*                                                                         *)
(* Three versions of Character_Update live in the repository:              *)
(*   - the jump variant, src/Character/Character.c (ground/air physics);   *)
(*   - the dash variant listed in src/README.md (switch-based FSM,         *)
(*     clamped position, prev_state, move_x/move_y);                       *)
(*   - the simplified dash variant listed in src/unnamed/part_001          *)
(*     (memoryless mode rule, moves outside 20..220 are dropped).          *)
(* Each one is a pure function from (character record, inputs) to the new  *)
(* character record; one action per variant applies it to the variables.   *)
(*                                                                         *)
(* velocity_y is a C float.  It is held as an integer count of 2^-23       *)
(* units and every addition is rounded as IEEE-754 binary32 does           *)
(* (round to nearest, ties to even), so that the truncation to int16_t     *)
(* sees the same values as the target (single-precision FPU).              *)
(***************************************************************************)
EXTENDS Integers, Sequences, FiniteSets, TLC

VARIABLES
    x,                \* Character_t.x
    y,                \* Character_t.y
    velocity_y,       \* Character_t.velocity_y (jump variant), in 2^-23 units
    state,            \* Character_t.state
    prev_state,       \* Character_t.prev_state
    animation_frame,  \* Character_t.animation_frame
    frame_counter,    \* Character_t.frame_counter
    direction,        \* Character_t.direction (jump variant)
    move_x,           \* Character_t.move_x (dash variant)
    move_y,           \* Character_t.move_y (dash variant)
    dash_counter,     \* Character_t.dash_counter (dash variant)
    dash_age,         \* history: updates since (and including) the last dash trigger
    axis,             \* the line of the compass the player moves the stick on
    run_activations,  \* history: jumps started while the button flag has stayed true
    jump_age,         \* history: updates since (and including) the take-off update
    dash_origin,      \* history: where the dash under way began, <<>> if none is
                      \* under way or the stick has not been held in one direction
    anim_window,      \* history: for each of the latest updates (at most 8, all of
                      \* which ended in CHAR_RUNNING): did animation_frame change
    rest_run,         \* history: consecutive resting updates that began in IDLE
    walk_run,         \* history: updates since construction, all one direction, no dash
    joy_direction,    \* Joystick_t.direction, as last handed to Character_Update
    pc,               \* where main() is: "boot", or "read" / "update" / "clear" /
                      \* "delay" inside the loop
    dash_button_pressed,              \* the flag set by the interrupt handler
    dash_button_last_interrupt_time,  \* tick of the last accepted press
    tick,             \* HAL_GetTick(), in milliseconds
    pressed_arg,      \* the flag value main() read for this frame
    accepted,         \* history: presses the interrupt handler accepted
    delivered         \* history: Character_Update calls that got pressed_arg = 1

vars == <<x, y, velocity_y, state, prev_state, animation_frame, frame_counter,
          direction, move_x, move_y, dash_counter, dash_age, axis,
          run_activations, jump_age, dash_origin, anim_window, rest_run,
          walk_run,
          joy_direction, pc,
          dash_button_pressed, dash_button_last_interrupt_time, tick,
          pressed_arg, accepted, delivered>>

\* The variables of main() and of the interrupt handler
main_vars == <<pc, dash_button_pressed, dash_button_last_interrupt_time, tick,
               pressed_arg, accepted, delivered>>

----------------------------------------------------------------------------
(* Enumerations and configuration *)

CHAR_IDLE == 0

CHAR_RUNNING == 1

CHAR_JUMPING == 2

CHAR_WALKING == 1

CHAR_DASHING == 2

CHAR_SPEED == 2

CHAR_DASH_SPEED == 6

CHAR_DASH_DURATION == 20

SCREEN_MIN_X == 10

SCREEN_MAX_X == 230

SCREEN_MIN_Y == 10

SCREEN_MAX_Y == 230

\* Jump variant constants (CHARACTER_FSM_GUIDE.md, Physics Constants)
CHAR_RUN_SPEED == 4

GROUND_Y == 200

\* One unit of velocity_y is 2^-23 (the spacing of binary32 in [1,2))
F32_ONE == 8388608

\* 1.1f == 0x3F8CCCCD == 9227469 * 2^-23
CHAR_GRAVITY == 9227469

\* -10.0f
CHAR_JUMP_VELOCITY == -83886080

\* 15.0f
CHAR_MAX_FALL_VELOCITY == 125829120

\* joy->coord_mapped.x is held in hundredths; 0.3f is the dead zone
JOY_DEADZONE == 30

\* Animation periods
RUN_ANIM_PERIOD == 8

WALK_ANIM_PERIOD == 10

----------------------------------------------------------------------------
(* binary32 arithmetic on 2^-23 units *)

Abs(n) == IF n < 0 THEN -n ELSE n

\* The spacing of binary32 values around magnitude m (in 2^-23 units):
\* 24 significant bits, so below 2^24 units every integer is representable.
RECURSIVE F32Quantum(_)
F32Quantum(m) == IF m < 16777216 THEN 1 ELSE 2 * F32Quantum(m \div 2)

\* Round to nearest representable value, ties to even significand.
F32Round(n) ==
    LET m  == Abs(n)
        q  == F32Quantum(m)
        lo == (m \div q) * q
        r  == m - lo
        up == IF 2 * r > q THEN TRUE
              ELSE IF 2 * r < q THEN FALSE
              ELSE ((lo \div q) % 2) = 1
        res == IF up THEN lo + q ELSE lo
    IN  IF n < 0 THEN -res ELSE res

\* a + b in binary32
F32Add(a, b) == F32Round(a + b)

\* The conversion as a floor: toward minus infinity
F32ToInt_Floor(v) == v \div F32_ONE

\* (int16_t) of a float: truncation toward zero
F32ToInt(v) == IF v < 0 THEN -((-v) \div F32_ONE) ELSE v \div F32_ONE


----------------------------------------------------------------------------
(* Jump variant: src/Character/Character.c *)

\* Character_Init
InitCharacter ==
    [x |-> 120, y |-> GROUND_Y, velocity_y |-> 0, state |-> CHAR_IDLE,
     prev_state |-> CHAR_IDLE, animation_frame |-> 0, frame_counter |-> 0,
     direction |-> 0]

\* Character_Init that leaves velocity_y as it finds it
Character_Init_KeepsVelocity(c) ==
    [c EXCEPT !.x = 120, !.y = GROUND_Y, !.state = CHAR_IDLE,
              !.prev_state = CHAR_IDLE, !.animation_frame = 0,
              !.frame_counter = 0, !.direction = 0]

\* Character_Init(character): every field of the record is written
Character_Init(c) ==
    [c EXCEPT !.x = 120, !.y = GROUND_Y, !.velocity_y = 0,
              !.state = CHAR_IDLE, !.prev_state = CHAR_IDLE,
              !.animation_frame = 0, !.frame_counter = 0, !.direction = 0]

\* STEP 1: horizontal intent from the analog axis (hundredths of full scale)
InputDirection(joy_x) ==
    IF joy_x < -JOY_DEADZONE THEN -1
    ELSE IF joy_x > JOY_DEADZONE THEN 1
    ELSE 0

\* Mutant of ClampX: the right-hand limit is forgotten
ClampX_NoRightLimit(px) ==
    IF px < SCREEN_MIN_X THEN SCREEN_MIN_X ELSE px

\* "Keep character on screen horizontally"
ClampX(px) ==
    LET a == IF px < SCREEN_MIN_X THEN SCREEN_MIN_X ELSE px
    IN  IF a > SCREEN_MAX_X THEN SCREEN_MAX_X ELSE a

\* MoveX that moves the character only while it stands on the ground
MoveX_GroundOnly(c, input_direction) ==
    LET moved == IF input_direction # 0 /\ c.y >= GROUND_Y
                 THEN [c EXCEPT !.x = c.x + input_direction * CHAR_RUN_SPEED,
                                !.direction = input_direction]
                 ELSE c
    IN  [moved EXCEPT !.x = ClampX(moved.x)]

\* STEP 2: horizontal movement, then the clamp (which runs on every update)
MoveX(c, input_direction) ==
    LET moved == IF input_direction # 0
                 THEN [c EXCEPT !.x = c.x + input_direction * CHAR_RUN_SPEED,
                                !.direction = input_direction]
                 ELSE c
    IN  [moved EXCEPT !.x = ClampX(moved.x)]

\* Mutant of JumpStart: the character is not lifted off the ground line
JumpStart_NoLift(c, jump_button) ==
    LET is_on_ground == c.y >= GROUND_Y
    IN  IF jump_button /\ is_on_ground
        THEN [c EXCEPT !.velocity_y = CHAR_JUMP_VELOCITY]
        ELSE c

\* JumpStart without the ground test: the button also jumps in mid-air
JumpStart_NoGroundTest(c, jump_button) ==
    IF jump_button
    THEN [c EXCEPT !.velocity_y = CHAR_JUMP_VELOCITY, !.y = GROUND_Y - 1]
    ELSE c

\* JumpStart that also gives the upward velocity in mid-air, from where
\* the character is
JumpStart_MidAirKick(c, jump_button) ==
    LET is_on_ground == c.y >= GROUND_Y
    IN  IF jump_button
        THEN [c EXCEPT !.velocity_y = CHAR_JUMP_VELOCITY,
                       !.y = IF is_on_ground THEN GROUND_Y - 1 ELSE c.y]
        ELSE c

\* JumpStart with half the take-off velocity (-5.0)
JumpStart_HalfVelocity(c, jump_button) ==
    LET is_on_ground == c.y >= GROUND_Y
    IN  IF jump_button /\ is_on_ground
        THEN [c EXCEPT !.velocity_y = CHAR_JUMP_VELOCITY \div 2,
                       !.y = GROUND_Y - 1]
        ELSE c

\* STEP 3: jump button, only when on the ground
JumpStart(c, jump_button) ==
    LET is_on_ground == c.y >= GROUND_Y
    IN  IF jump_button /\ is_on_ground
        THEN [c EXCEPT !.velocity_y = CHAR_JUMP_VELOCITY, !.y = GROUND_Y - 1]
        ELSE c

\* Mutant of Gravity: the position step uses the velocity of the previous
\* update (y is integrated before gravity is added)
Gravity_StaleVelocity(c) ==
    IF c.y < GROUND_Y
    THEN LET v1 == F32Add(c.velocity_y, CHAR_GRAVITY)
             v2 == IF v1 > CHAR_MAX_FALL_VELOCITY THEN CHAR_MAX_FALL_VELOCITY ELSE v1
             y1 == c.y + F32ToInt(c.velocity_y)
             y2 == IF y1 > GROUND_Y THEN GROUND_Y ELSE y1
         IN  [c EXCEPT !.velocity_y = v2, !.y = y2]
    ELSE [c EXCEPT !.velocity_y = 0, !.y = GROUND_Y]

\* Gravity with the cap of the velocity at 0 instead of CHAR_MAX_FALL_VELOCITY
Gravity_CapAtZero(c) ==
    IF c.y < GROUND_Y
    THEN LET v1 == F32Add(c.velocity_y, CHAR_GRAVITY)
             v2 == IF v1 > 0 THEN 0 ELSE v1
             y1 == c.y + F32ToInt(v2)
             y2 == IF y1 > GROUND_Y THEN GROUND_Y ELSE y1
         IN  [c EXCEPT !.velocity_y = v2, !.y = y2]
    ELSE [c EXCEPT !.velocity_y = 0, !.y = GROUND_Y]

\* Gravity that adds CHAR_GRAVITY twice per update
Gravity_AddedTwice(c) ==
    IF c.y < GROUND_Y
    THEN LET v1 == F32Add(F32Add(c.velocity_y, CHAR_GRAVITY), CHAR_GRAVITY)
             v2 == IF v1 > CHAR_MAX_FALL_VELOCITY THEN CHAR_MAX_FALL_VELOCITY ELSE v1
             y1 == c.y + F32ToInt(v2)
             y2 == IF y1 > GROUND_Y THEN GROUND_Y ELSE y1
         IN  [c EXCEPT !.velocity_y = v2, !.y = y2]
    ELSE [c EXCEPT !.velocity_y = 0, !.y = GROUND_Y]

\* Gravity without the snap to the ground line
Gravity_NoGroundClamp(c) ==
    IF c.y < GROUND_Y
    THEN LET v1 == F32Add(c.velocity_y, CHAR_GRAVITY)
             v2 == IF v1 > CHAR_MAX_FALL_VELOCITY THEN CHAR_MAX_FALL_VELOCITY ELSE v1
             y1 == c.y + F32ToInt(v2)
         IN  [c EXCEPT !.velocity_y = v2, !.y = y1]
    ELSE [c EXCEPT !.velocity_y = 0, !.y = GROUND_Y]

\* STEP 4: gravity and vertical motion
Gravity(c) ==
    IF c.y < GROUND_Y
    THEN LET v1 == F32Add(c.velocity_y, CHAR_GRAVITY)
             v2 == IF v1 > CHAR_MAX_FALL_VELOCITY THEN CHAR_MAX_FALL_VELOCITY ELSE v1
             y1 == c.y + F32ToInt(v2)
             y2 == IF y1 > GROUND_Y THEN GROUND_Y ELSE y1
         IN  [c EXCEPT !.velocity_y = v2, !.y = y2]
    ELSE [c EXCEPT !.velocity_y = 0, !.y = GROUND_Y]

\* Mutant of JumpTransition: in CHAR_JUMPING the ground test is dropped
\* when the stick is held, so steering in the air ends the jump
JumpTransition_SteerEndsJump(s, input_direction, is_on_ground) ==
    IF s = CHAR_IDLE
    THEN LET s1 == IF input_direction # 0 THEN CHAR_RUNNING ELSE s
         IN  IF ~is_on_ground THEN CHAR_JUMPING ELSE s1
    ELSE IF s = CHAR_RUNNING
    THEN LET s1 == IF input_direction = 0 /\ is_on_ground THEN CHAR_IDLE ELSE s
         IN  IF ~is_on_ground THEN CHAR_JUMPING ELSE s1
    ELSE IF s = CHAR_JUMPING
    THEN IF input_direction # 0 THEN CHAR_RUNNING
         ELSE IF is_on_ground THEN CHAR_IDLE
         ELSE s
    ELSE s

\* Mutant of JumpTransition: landing always returns to CHAR_IDLE
JumpTransition_LandsIdle(s, input_direction, is_on_ground) ==
    IF s = CHAR_IDLE
    THEN LET s1 == IF input_direction # 0 THEN CHAR_RUNNING ELSE s
         IN  IF ~is_on_ground THEN CHAR_JUMPING ELSE s1
    ELSE IF s = CHAR_RUNNING
    THEN LET s1 == IF input_direction = 0 /\ is_on_ground THEN CHAR_IDLE ELSE s
         IN  IF ~is_on_ground THEN CHAR_JUMPING ELSE s1
    ELSE IF s = CHAR_JUMPING
    THEN IF is_on_ground THEN CHAR_IDLE ELSE s
    ELSE s

\* JumpTransition whose airborne branches add CHAR_JUMPING to the state
\* instead of assigning it
JumpTransition_AddsJumping(s, input_direction, is_on_ground) ==
    IF s = CHAR_IDLE
    THEN LET s1 == IF input_direction # 0 THEN CHAR_RUNNING ELSE s
         IN  IF ~is_on_ground THEN s1 + CHAR_JUMPING ELSE s1
    ELSE IF s = CHAR_RUNNING
    THEN LET s1 == IF input_direction = 0 /\ is_on_ground THEN CHAR_IDLE ELSE s
         IN  IF ~is_on_ground THEN s1 + CHAR_JUMPING ELSE s1
    ELSE IF s = CHAR_JUMPING
    THEN IF is_on_ground
         THEN (IF input_direction # 0 THEN CHAR_RUNNING ELSE CHAR_IDLE)
         ELSE s
    ELSE s

\* JumpTransition whose CHAR_IDLE case tests the ground in an else branch
JumpTransition_IdleElseIf(s, input_direction, is_on_ground) ==
    IF s = CHAR_IDLE
    THEN IF input_direction # 0 THEN CHAR_RUNNING
         ELSE IF ~is_on_ground THEN CHAR_JUMPING
         ELSE s
    ELSE IF s = CHAR_RUNNING
    THEN LET s1 == IF input_direction = 0 /\ is_on_ground THEN CHAR_IDLE ELSE s
         IN  IF ~is_on_ground THEN CHAR_JUMPING ELSE s1
    ELSE IF s = CHAR_JUMPING
    THEN IF is_on_ground
         THEN (IF input_direction # 0 THEN CHAR_RUNNING ELSE CHAR_IDLE)
         ELSE s
    ELSE s

\* STEP 5: the switch on character->state
JumpTransition(s, input_direction, is_on_ground) ==
    IF s = CHAR_IDLE
    THEN LET s1 == IF input_direction # 0 THEN CHAR_RUNNING ELSE s
         IN  IF ~is_on_ground THEN CHAR_JUMPING ELSE s1
    ELSE IF s = CHAR_RUNNING
    THEN LET s1 == IF input_direction = 0 /\ is_on_ground THEN CHAR_IDLE ELSE s
         IN  IF ~is_on_ground THEN CHAR_JUMPING ELSE s1
    ELSE IF s = CHAR_JUMPING
    THEN IF is_on_ground
         THEN (IF input_direction # 0 THEN CHAR_RUNNING ELSE CHAR_IDLE)
         ELSE s
    ELSE s

\* UpdateState that saves prev_state after the switch instead of before it
UpdateState_SavesAfterSwitch(c, input_direction) ==
    LET is_on_ground == c.y >= GROUND_Y
        s1           == JumpTransition(c.state, input_direction, is_on_ground)
    IN  [c EXCEPT !.prev_state = s1, !.state = s1]

\* STEP 5: prev_state is saved, then the switch runs
UpdateState(c, input_direction) ==
    LET is_on_ground == c.y >= GROUND_Y
    IN  [c EXCEPT !.prev_state = c.state,
                  !.state = JumpTransition(c.state, input_direction, is_on_ground)]

\* Animate without the reset branch: the frame is left alone outside RUNNING
Animate_KeepsFrame(c) ==
    LET fc == (c.frame_counter + 1) % 256
    IN  IF fc >= RUN_ANIM_PERIOD
        THEN [c EXCEPT !.frame_counter = 0,
                       !.animation_frame =
                           IF c.state = CHAR_RUNNING
                           THEN (c.animation_frame + 1) % 2
                           ELSE c.animation_frame]
        ELSE [c EXCEPT !.frame_counter = fc]

\* Animate whose counter runs in CHAR_RUNNING only and is reset in any
\* other mode
Animate_RunningOnly(c) ==
    IF c.state = CHAR_RUNNING
    THEN LET fc == (c.frame_counter + 1) % 256
         IN  IF fc >= RUN_ANIM_PERIOD
             THEN [c EXCEPT !.frame_counter = 0,
                            !.animation_frame = (c.animation_frame + 1) % 2]
             ELSE [c EXCEPT !.frame_counter = fc]
    ELSE [c EXCEPT !.animation_frame = 0, !.frame_counter = 0]

\* Animate with half the period: the counter wraps at RUN_ANIM_PERIOD / 2
Animate_HalfPeriod(c) ==
    LET fc == (c.frame_counter + 1) % 256
    IN  IF fc >= RUN_ANIM_PERIOD \div 2
        THEN [c EXCEPT !.frame_counter = 0,
                       !.animation_frame =
                           IF c.state = CHAR_RUNNING
                           THEN (c.animation_frame + 1) % 2
                           ELSE 0]
        ELSE [c EXCEPT !.frame_counter = fc]

\* STEP 7: animation frame (frame_counter is a uint8_t)
Animate(c) ==
    LET fc == (c.frame_counter + 1) % 256
    IN  IF fc >= RUN_ANIM_PERIOD
        THEN [c EXCEPT !.frame_counter = 0,
                       !.animation_frame =
                           IF c.state = CHAR_RUNNING
                           THEN (c.animation_frame + 1) % 2
                           ELSE 0]
        ELSE [c EXCEPT !.frame_counter = fc]

\* The mode rule of the README listing of the jump variant ("4. Update FSM
\* state based on physics + input"): no switch, the old state is not read
MemorylessMode(py, input_direction) ==
    IF py < GROUND_Y THEN CHAR_JUMPING
    ELSE IF input_direction # 0 THEN CHAR_RUNNING
    ELSE CHAR_IDLE

\* Character_Update(character, joy, jump_button)
Character_Update(c, joy_x, jump_button) ==
    LET input_direction == InputDirection(joy_x)
    IN  Animate(UpdateState(Gravity(JumpStart(MoveX(c, input_direction),
                                              jump_button)),
                            input_direction))

\* The inputs a frame can bring: stick values on both sides of the dead zone
JoyXValues == {-100, -31, -30, 0, 30, 31, 100}

\* The jump variant's record, read from the variables
JumpChar ==
    [x |-> x, y |-> y, velocity_y |-> velocity_y, state |-> state,
     prev_state |-> prev_state, animation_frame |-> animation_frame,
     frame_counter |-> frame_counter, direction |-> direction]

SetJumpChar(c) ==
    /\ x' = c.x
    /\ y' = c.y
    /\ velocity_y' = c.velocity_y
    /\ state' = c.state
    /\ prev_state' = c.prev_state
    /\ animation_frame' = c.animation_frame
    /\ frame_counter' = c.frame_counter
    /\ direction' = c.direction

\* main() at the top of its loop, no button pressed since reset:
\* dash_button_pressed = 0, dash_button_last_interrupt_time = 0
InitMain ==
    /\ pc = "read"
    /\ dash_button_pressed = 0
    /\ dash_button_last_interrupt_time = 0
    /\ tick = 0
    /\ pressed_arg = 0
    /\ accepted = 0
    /\ delivered = 0

\* run_activations stops counting here
MaxRunActivations == 3

\* History of the button flag: the number of jumps STEP 3 has started since
\* the flag was last seen false (0 again as soon as an update sees it false)
NextRunActivations(runs, is_on_ground, jump_button) ==
    IF ~jump_button THEN 0
    ELSE IF ~is_on_ground THEN runs
    ELSE IF runs < MaxRunActivations THEN runs + 1
    ELSE runs

\* jump_age stops counting here
MaxJumpAge == 20

\* History of a flight: 0 while no jump is under way, 1 after the update
\* that starts a jump (STEP 3 acted), one more after every update that
\* found the character in the air
NextJumpAge(age, is_on_ground, jump_button) ==
    IF is_on_ground THEN (IF jump_button THEN 1 ELSE 0)
    ELSE IF age < MaxJumpAge THEN age + 1
    ELSE age

\* rest_run stops counting here
MaxRestRun == 12

\* History of resting: the number of consecutive updates with neutral input
\* and no ability flag, the first of which found the character in CHAR_IDLE
NextRestRun(run, entry_state, is_neutral, ability) ==
    IF is_neutral /\ ~ability /\ (run > 0 \/ entry_state = CHAR_IDLE)
    THEN IF run < MaxRestRun THEN run + 1 ELSE run
    ELSE 0

InitJump ==
    /\ x = InitCharacter.x
    /\ y = InitCharacter.y
    /\ velocity_y = InitCharacter.velocity_y
    /\ state = InitCharacter.state
    /\ prev_state = InitCharacter.prev_state
    /\ animation_frame = InitCharacter.animation_frame
    /\ frame_counter = InitCharacter.frame_counter
    /\ direction = InitCharacter.direction
    /\ move_x = 0
    /\ move_y = 0
    /\ dash_counter = 0
    /\ dash_age = 0
    /\ axis = "EW"
    /\ run_activations = 0
    /\ jump_age = 0
    /\ dash_origin = <<>>
    /\ anim_window = <<>>
    /\ rest_run = 0
    /\ walk_run = 0
    /\ joy_direction = "CENTRE"
    /\ InitMain

\* One frame of the main loop: Character_Update with this frame's inputs.
\* The loop hands the button flag to the core as it finds it; whether the
\* flag was cleared since the last frame is the choice of jump_button.
UpdateJump ==
    \E joy_x \in JoyXValues, jump_button \in BOOLEAN :
        /\ SetJumpChar(Character_Update(JumpChar, joy_x, jump_button))
        /\ run_activations' =
               NextRunActivations(run_activations, y >= GROUND_Y, jump_button)
        /\ jump_age' = NextJumpAge(jump_age, y >= GROUND_Y, jump_button)
        /\ rest_run' = NextRestRun(rest_run, state,
                                   InputDirection(joy_x) = 0, jump_button)
        /\ UNCHANGED <<move_x, move_y, dash_counter, dash_age, dash_origin,
                       anim_window, axis,
                       walk_run, joy_direction, main_vars>>

NextJump == UpdateJump

\* History of the run animation: one entry per update, TRUE if the update
\* changed animation_frame; only the latest RUN_ANIM_PERIOD entries are kept,
\* and an update that ends in another mode than CHAR_RUNNING empties it
NextAnimWindow(window, old, new) ==
    IF new.state # CHAR_RUNNING THEN <<>>
    ELSE LET w == Append(window, new.animation_frame # old.animation_frame)
         IN  IF Len(w) > RUN_ANIM_PERIOD THEN Tail(w) ELSE w

\* One frame of the main loop, with the history of the run animation kept
\* (and the histories of the jump left alone)
UpdateJumpWindow ==
    \E joy_x \in JoyXValues, jump_button \in BOOLEAN :
        LET n == Character_Update(JumpChar, joy_x, jump_button)
        IN  /\ SetJumpChar(n)
            /\ anim_window' = NextAnimWindow(anim_window, JumpChar, n)
            /\ UNCHANGED <<move_x, move_y, dash_counter, dash_age, dash_origin,
                           axis, run_activations, jump_age, rest_run, walk_run,
                           joy_direction, main_vars>>

NextJumpWindow == UpdateJumpWindow

SpecJumpWindow == InitJump /\ [][NextJumpWindow]_vars

\* main() before Character_Init: the record holds whatever the memory held
InitBoot ==
    /\ x \in {-32768, 0, 120, 32767}
    /\ y \in {-1, GROUND_Y, 500}
    /\ velocity_y \in {CHAR_JUMP_VELOCITY, 0, CHAR_MAX_FALL_VELOCITY + F32_ONE}
    /\ state \in {CHAR_IDLE, CHAR_JUMPING, 7}
    /\ prev_state \in {CHAR_IDLE, CHAR_RUNNING}
    /\ animation_frame \in {0, 1, 255}
    /\ frame_counter \in {0, 7, 200}
    /\ direction \in {-1, 0, 1}
    /\ move_x = 0
    /\ move_y = 0
    /\ dash_counter = 0
    /\ dash_age = 0
    /\ axis = "EW"
    /\ run_activations = 0
    /\ jump_age = 0
    /\ dash_origin = <<>>
    /\ anim_window = <<>>
    /\ rest_run = 0
    /\ walk_run = 0
    /\ joy_direction = "CENTRE"
    /\ pc = "boot"
    /\ dash_button_pressed = 0
    /\ dash_button_last_interrupt_time = 0
    /\ tick = 0
    /\ pressed_arg = 0
    /\ accepted = 0
    /\ delivered = 0

\* main() calls Character_Init(&game_character) and enters its loop
CallCharacterInit ==
    /\ pc = "boot"
    /\ SetJumpChar(Character_Init(JumpChar))
    /\ pc' = "read"
    /\ UNCHANGED <<move_x, move_y, dash_counter, dash_age, axis,
                   run_activations, jump_age, dash_origin, anim_window, rest_run,
                   walk_run,
                   joy_direction,
                   dash_button_pressed, dash_button_last_interrupt_time, tick,
                   pressed_arg, accepted, delivered>>

NextBoot == CallCharacterInit

SpecBoot == InitBoot /\ [][NextBoot]_vars

\* What every call of Character_Update does to frame_counter (STEP 7): one
\* more, back to 0 at RUN_ANIM_PERIOD
FrameStep == frame_counter' = (frame_counter + 1) % RUN_ANIM_PERIOD

\* main() calls Character_Update once per frame, for ever: the frame counter
\* never stops.  (Every step of NextJump is a FrameStep.)
FairJump == WF_frame_counter(FrameStep)

SpecJumpFair == InitJump /\ [][NextJump]_vars /\ FairJump

SpecJump == InitJump /\ [][NextJump]_vars


----------------------------------------------------------------------------
(* Dash variant: the Character_Update listing of src/README.md *)

\* Joystick_t.direction: centre and the eight compass points
Directions == {"CENTRE", "N", "NE", "E", "SE", "S", "SW", "W", "NW"}

\* DirX whose last case (E, NE, SE) is written as the default of the switch
DirX_EastIsDefault(d) ==
    IF d \in {"W", "NW", "SW"} THEN -1
    ELSE IF d \in {"CENTRE", "N", "S"} THEN 0
    ELSE 1

\* switch (joy->direction): the x component of the input vector.
\* A value the switch has no case for leaves input_x at its initial 0.
DirX(d) ==
    IF d \in {"NE", "E", "SE"} THEN 1
    ELSE IF d \in {"NW", "W", "SW"} THEN -1
    ELSE 0

DirY_CentreFallsThrough(d) ==
    IF d \in {"CENTRE", "N", "NE", "NW"} THEN -1
    ELSE IF d \in {"S", "SE", "SW"} THEN 1
    ELSE 0

\* switch (joy->direction): the y component (north is up, y decreases)
DirY(d) ==
    IF d \in {"N", "NE", "NW"} THEN -1
    ELSE IF d \in {"S", "SE", "SW"} THEN 1
    ELSE 0

\* Character_t game_character = { .x = 120, .y = 120, .state = CHAR_IDLE, ... }
InitDashCharacter ==
    [x |-> 120, y |-> 120, state |-> CHAR_IDLE, prev_state |-> CHAR_IDLE,
     animation_frame |-> 0, frame_counter |-> 0, move_x |-> 0, move_y |-> 0,
     dash_counter |-> 0]

\* DashTrigger without the test of the counter: every press reloads it
DashTrigger_Reloads(counter, dash_pressed) ==
    IF dash_pressed THEN CHAR_DASH_DURATION ELSE counter

\* 2. dash trigger from the button
DashTrigger(counter, dash_pressed) ==
    IF dash_pressed /\ counter = 0 THEN CHAR_DASH_DURATION ELSE counter

\* CurrentSpeed with the two speeds exchanged
CurrentSpeed_Swapped(counter) == IF counter > 0 THEN CHAR_SPEED ELSE CHAR_DASH_SPEED

\* CurrentSpeed without the dash: the counter has no effect on the speed
CurrentSpeed_Normal(counter) == IF counter > 0 THEN CHAR_SPEED ELSE CHAR_SPEED

\* 3. movement speed for this update (read before the decrement)
CurrentSpeed(counter) == IF counter > 0 THEN CHAR_DASH_SPEED ELSE CHAR_SPEED

\* The count-down without its test: 0 wraps to 255
DashCountDown_Unguarded(counter) == (counter - 1) % 256

\* The count-down in steps of two: the dash lasts half as long
DashCountDown_ByTwo(counter) == IF counter > 1 THEN counter - 2 ELSE 0

\* 3. the count-down (dash_counter is a uint8_t)
DashCountDown(counter) == IF counter > 0 THEN (counter - 1) % 256 ELSE counter

\* Mutant of ClampToScreen: only the lower limit is enforced
ClampToScreen_NoUpperLimit(v, lo, hi) ==
    IF v < lo THEN lo ELSE v

\* 4. "Keep on screen"
ClampToScreen(v, lo, hi) ==
    LET a == IF v < lo THEN lo ELSE v
    IN  IF a > hi THEN hi ELSE a

\* 4. position update: the clamped position is committed only when moving
DashMove(c, input_x, input_y, current_speed) ==
    LET new_x == ClampToScreen(c.x + input_x * current_speed, SCREEN_MIN_X, SCREEN_MAX_X)
        new_y == ClampToScreen(c.y + input_y * current_speed, SCREEN_MIN_Y, SCREEN_MAX_Y)
    IN  IF input_x # 0 \/ input_y # 0
        THEN [c EXCEPT !.x = new_x, !.y = new_y]
        ELSE c

\* Mutant of DashTransition: CHAR_WALKING tests the movement first, as
\* CHAR_IDLE does, and keeps walking while the stick is held
DashTransition_WalkingKeepsWalking(s, is_moving, counter) ==
    IF s = CHAR_IDLE
    THEN IF is_moving THEN CHAR_WALKING
         ELSE IF counter > 0 THEN CHAR_DASHING
         ELSE s
    ELSE IF s = CHAR_WALKING
    THEN IF is_moving THEN CHAR_WALKING
         ELSE IF counter > 0 THEN CHAR_DASHING
         ELSE CHAR_IDLE
    ELSE IF s = CHAR_DASHING
    THEN IF counter = 0
         THEN (IF is_moving THEN CHAR_WALKING ELSE CHAR_IDLE)
         ELSE s
    ELSE s

\* DashTransition whose CHAR_IDLE case has no branch for the dash
DashTransition_IdleIgnoresDash(s, is_moving, counter) ==
    IF s = CHAR_IDLE
    THEN IF is_moving THEN CHAR_WALKING
         ELSE s
    ELSE IF s = CHAR_WALKING
    THEN IF ~is_moving /\ counter = 0 THEN CHAR_IDLE
         ELSE IF counter > 0 THEN CHAR_DASHING
         ELSE s
    ELSE IF s = CHAR_DASHING
    THEN IF counter = 0
         THEN (IF is_moving THEN CHAR_WALKING ELSE CHAR_IDLE)
         ELSE s
    ELSE s

\* DashTransition whose CHAR_DASHING case ends the dash only on a neutral stick
DashTransition_DashingUntilRelease(s, is_moving, counter) ==
    IF s = CHAR_IDLE
    THEN IF is_moving THEN CHAR_WALKING
         ELSE IF counter > 0 THEN CHAR_DASHING
         ELSE s
    ELSE IF s = CHAR_WALKING
    THEN IF ~is_moving /\ counter = 0 THEN CHAR_IDLE
         ELSE IF counter > 0 THEN CHAR_DASHING
         ELSE s
    ELSE IF s = CHAR_DASHING
    THEN IF counter = 0 /\ ~is_moving THEN CHAR_IDLE
         ELSE s
    ELSE s

\* DashTransition whose CHAR_DASHING case always expires to CHAR_IDLE
DashTransition_ExpiresToIdle(s, is_moving, counter) ==
    IF s = CHAR_IDLE
    THEN IF is_moving THEN CHAR_WALKING
         ELSE IF counter > 0 THEN CHAR_DASHING
         ELSE s
    ELSE IF s = CHAR_WALKING
    THEN IF ~is_moving /\ counter = 0 THEN CHAR_IDLE
         ELSE IF counter > 0 THEN CHAR_DASHING
         ELSE s
    ELSE IF s = CHAR_DASHING
    THEN IF counter = 0 THEN CHAR_IDLE
         ELSE s
    ELSE s

\* 5. the switch on character->state
DashTransition(s, is_moving, counter) ==
    IF s = CHAR_IDLE
    THEN IF is_moving THEN CHAR_WALKING
         ELSE IF counter > 0 THEN CHAR_DASHING
         ELSE s
    ELSE IF s = CHAR_WALKING
    THEN IF ~is_moving /\ counter = 0 THEN CHAR_IDLE
         ELSE IF counter > 0 THEN CHAR_DASHING
         ELSE s
    ELSE IF s = CHAR_DASHING
    THEN IF counter = 0
         THEN (IF is_moving THEN CHAR_WALKING ELSE CHAR_IDLE)
         ELSE s
    ELSE s

\* 6. animation frame (frame_counter is a uint8_t)
DashAnimate(c) ==
    LET fc == (c.frame_counter + 1) % 256
    IN  IF fc >= WALK_ANIM_PERIOD
        THEN [c EXCEPT !.frame_counter = 0,
                       !.animation_frame =
                           IF c.state = CHAR_WALKING
                           THEN (c.animation_frame + 1) % 2
                           ELSE 0]
        ELSE [c EXCEPT !.frame_counter = fc]

\* The README listing with move_x / move_y written only when the stick is
\* away from the centre
Character_Update_Dash_KeepsMove(c, dir, dash_pressed) ==
    LET input_x   == DirX(dir)
        input_y   == DirY(dir)
        armed     == DashTrigger(c.dash_counter, dash_pressed)
        speed     == CurrentSpeed(armed)
        counter   == DashCountDown(armed)
        is_moving == input_x # 0 \/ input_y # 0
        c1        == [c EXCEPT !.move_x = IF is_moving THEN input_x ELSE c.move_x,
                               !.move_y = IF is_moving THEN input_y ELSE c.move_y,
                               !.dash_counter = counter]
        c2        == DashMove(c1, input_x, input_y, speed)
        c3        == [c2 EXCEPT !.prev_state = c2.state,
                                !.state = DashTransition(c2.state, is_moving, counter)]
    IN  DashAnimate(c3)

\* Character_Update(character, joy, dash_pressed), README listing
Character_Update_Dash(c, dir, dash_pressed) ==
    LET input_x   == DirX(dir)
        input_y   == DirY(dir)
        armed     == DashTrigger(c.dash_counter, dash_pressed)
        speed     == CurrentSpeed(armed)
        counter   == DashCountDown(armed)
        c1        == [c EXCEPT !.move_x = input_x, !.move_y = input_y,
                               !.dash_counter = counter]
        c2        == DashMove(c1, input_x, input_y, speed)
        is_moving == input_x # 0 \/ input_y # 0
        c3        == [c2 EXCEPT !.prev_state = c2.state,
                                !.state = DashTransition(c2.state, is_moving, counter)]
    IN  DashAnimate(c3)

----------------------------------------------------------------------------
(* Simplified dash variant: the Character_Update listing of src/unnamed/part_001 *)

\* The bounds written into the listing's STEP 4
SIMPLE_MIN == 20

SIMPLE_MAX == 220

\* STEP 4: a coordinate is committed only if the new value is inside the bounds
SimpleMoveAxis(v, d, speed) ==
    LET n == v + d * speed
    IN  IF n >= SIMPLE_MIN /\ n <= SIMPLE_MAX THEN n ELSE v

\* STEP 5: the mode is recomputed from the counter and the input
SimpleMode(is_moving, counter) ==
    IF counter > 0 THEN CHAR_DASHING
    ELSE IF is_moving THEN CHAR_WALKING
    ELSE CHAR_IDLE

\* STEP 6: the walk cycle runs in WALKING only, anything else resets it
SimpleAnimate(c) ==
    IF c.state = CHAR_WALKING
    THEN LET fc == (c.frame_counter + 1) % 256
         IN  IF fc >= WALK_ANIM_PERIOD
             THEN [c EXCEPT !.frame_counter = 0,
                            !.animation_frame = (c.animation_frame + 1) % 2]
             ELSE [c EXCEPT !.frame_counter = fc]
    ELSE [c EXCEPT !.animation_frame = 0, !.frame_counter = 0]

\* Character_Update(character, joy, dash_pressed), simplified listing.
\* move_x / move_y are locals of this listing (STEP 1); the record keeps
\* their last values.  prev_state is not a field of this version.
Character_Update_Simple(c, dir, dash_pressed) ==
    LET mx        == DirX(dir)
        my        == DirY(dir)
        armed     == DashTrigger(c.dash_counter, dash_pressed)
        speed     == CurrentSpeed(armed)
        counter   == DashCountDown(armed)
        is_moving == mx # 0 \/ my # 0
        c1        == [c EXCEPT !.move_x = mx, !.move_y = my,
                               !.dash_counter = counter,
                               !.x = SimpleMoveAxis(c.x, mx, speed),
                               !.y = SimpleMoveAxis(c.y, my, speed),
                               !.state = SimpleMode(is_moving, counter)]
    IN  SimpleAnimate(c1)

----------------------------------------------------------------------------
(* The dash variants as state machines *)

\* The player keeps the stick on one line through the centre during a run;
\* the four lines together use all nine compass symbols.
Axes == {"EW", "NS", "NESW", "NWSE"}

AxisDirections(a) ==
    IF a = "EW" THEN {"CENTRE", "E", "W"}
    ELSE IF a = "NS" THEN {"CENTRE", "N", "S"}
    ELSE IF a = "NESW" THEN {"CENTRE", "NE", "SW"}
    ELSE {"CENTRE", "NW", "SE"}

\* dash_age stops counting here
MaxDashAge == 22

\* History of the dash: 0 = no dash triggered yet, k >= 1 = this was the k-th
\* update counted from (and including) the triggering update
NextDashAge(age, counter, dash_pressed) ==
    IF dash_pressed /\ counter = 0 THEN 1
    ELSE IF age = 0 THEN 0
    ELSE IF age < MaxDashAge THEN age + 1
    ELSE age

\* History of a straight dash: the position the character had when the dash
\* was triggered, kept for the CHAR_DASH_DURATION updates of the dash as long
\* as every one of them has the direction of the triggering update; <<>>
\* otherwise
NextDashOrigin(origin, age, c, dir, dash_pressed) ==
    IF dash_pressed /\ c.dash_counter = 0
    THEN IF DirX(dir) # 0 \/ DirY(dir) # 0 THEN <<c.x, c.y>> ELSE <<>>
    ELSE IF /\ origin # <<>>
            /\ age < CHAR_DASH_DURATION
            /\ DirX(dir) = c.move_x
            /\ DirY(dir) = c.move_y
         THEN origin
    ELSE <<>>

\* walk_run stops counting here
MaxWalkRun == 60

\* History of a straight walk: 0 = no update since construction, k >= 1 =
\* every one of the k updates since construction had this same non-centre
\* direction and dash_pressed false, -1 = anything else
NextWalkRun(run, dir, dash_pressed) ==
    IF dash_pressed \/ (DirX(dir) = 0 /\ DirY(dir) = 0) THEN -1
    ELSE IF run = 0 THEN 1
    ELSE IF run >= 1 /\ DirX(dir) = move_x /\ DirY(dir) = move_y
         THEN IF run < MaxWalkRun THEN run + 1 ELSE run
    ELSE -1

DashChar ==
    [x |-> x, y |-> y, state |-> state, prev_state |-> prev_state,
     animation_frame |-> animation_frame, frame_counter |-> frame_counter,
     move_x |-> move_x, move_y |-> move_y, dash_counter |-> dash_counter]

SetDashChar(c) ==
    /\ x' = c.x
    /\ y' = c.y
    /\ state' = c.state
    /\ prev_state' = c.prev_state
    /\ animation_frame' = c.animation_frame
    /\ frame_counter' = c.frame_counter
    /\ move_x' = c.move_x
    /\ move_y' = c.move_y
    /\ dash_counter' = c.dash_counter

InitDash ==
    /\ x = InitDashCharacter.x
    /\ y = InitDashCharacter.y
    /\ state = InitDashCharacter.state
    /\ prev_state = InitDashCharacter.prev_state
    /\ animation_frame = InitDashCharacter.animation_frame
    /\ frame_counter = InitDashCharacter.frame_counter
    /\ move_x = InitDashCharacter.move_x
    /\ move_y = InitDashCharacter.move_y
    /\ dash_counter = InitDashCharacter.dash_counter
    /\ velocity_y = 0
    /\ direction = 0
    /\ dash_age = 0
    /\ axis \in Axes
    /\ run_activations = 0
    /\ jump_age = 0
    /\ dash_origin = <<>>
    /\ anim_window = <<>>
    /\ rest_run = 0
    /\ walk_run = 0
    /\ joy_direction = "CENTRE"
    /\ InitMain

\* One frame of the main loop, README listing
UpdateDash ==
    \E dir \in AxisDirections(axis), dash_pressed \in BOOLEAN :
        /\ SetDashChar(Character_Update_Dash(DashChar, dir, dash_pressed))
        /\ dash_age' = NextDashAge(dash_age, dash_counter, dash_pressed)
        /\ dash_origin' = NextDashOrigin(dash_origin, dash_age, DashChar, dir,
                                       dash_pressed)
        /\ rest_run' = NextRestRun(rest_run, state,
                                   DirX(dir) = 0 /\ DirY(dir) = 0, dash_pressed)
        /\ walk_run' = NextWalkRun(walk_run, dir, dash_pressed)
        /\ joy_direction' = dir
        /\ UNCHANGED <<velocity_y, direction, axis, run_activations, jump_age,
                       anim_window, main_vars>>

NextDash == UpdateDash

SpecDash == InitDash /\ [][NextDash]_vars

\* Values of joy->direction that are none of the nine symbols of the enum
OutOfRangeDirections == {"9", "255"}

\* One frame of the main loop, README listing, with a direction field that
\* may hold any value
UpdateDashAnyInput ==
    \E dir \in AxisDirections(axis) \cup OutOfRangeDirections,
       dash_pressed \in BOOLEAN :
        /\ SetDashChar(Character_Update_Dash(DashChar, dir, dash_pressed))
        /\ dash_age' = NextDashAge(dash_age, dash_counter, dash_pressed)
        /\ dash_origin' = NextDashOrigin(dash_origin, dash_age, DashChar, dir,
                                       dash_pressed)
        /\ rest_run' = NextRestRun(rest_run, state,
                                   DirX(dir) = 0 /\ DirY(dir) = 0, dash_pressed)
        /\ walk_run' = NextWalkRun(walk_run, dir, dash_pressed)
        /\ joy_direction' = dir
        /\ UNCHANGED <<velocity_y, direction, axis, run_activations, jump_age,
                       anim_window, main_vars>>

NextDashAnyInput == UpdateDashAnyInput

SpecDashAnyInput == InitDash /\ [][NextDashAnyInput]_vars

----------------------------------------------------------------------------
(* The dash variant with its button: main() and the interrupt handler *)

\* #define DEBOUNCE_DELAY 200  (milliseconds)
DEBOUNCE_DELAY == 200

\* HAL_Delay(30) at the end of every frame
FRAME_DELAY == 30

\* The clock stops here
MaxTick == 450

\* HAL_GPIO_EXTI_Callback(BTN3_Pin): it may run between any two steps of
\* main().  A press that comes too soon after the last accepted one is
\* ignored; an accepted one sets the flag.
ButtonISR ==
    /\ IF tick - dash_button_last_interrupt_time > DEBOUNCE_DELAY
       THEN /\ dash_button_last_interrupt_time' = tick
            /\ dash_button_pressed' = 1
            /\ accepted' = accepted + 1
       ELSE UNCHANGED <<dash_button_last_interrupt_time, dash_button_pressed,
                        accepted>>
    /\ UNCHANGED <<x, y, velocity_y, state, prev_state, animation_frame,
                   frame_counter, direction, move_x, move_y, dash_counter,
                   dash_age, dash_origin, anim_window, axis, run_activations,
                   jump_age, rest_run,
                   walk_run,
                   joy_direction, pc, tick, pressed_arg, delivered>>

\* Joystick_Read, then update_character looks at the flag
MainRead ==
    /\ pc = "read"
    /\ joy_direction' \in AxisDirections(axis)
    /\ pressed_arg' = dash_button_pressed
    /\ pc' = "update"
    /\ UNCHANGED <<x, y, velocity_y, state, prev_state, animation_frame,
                   frame_counter, direction, move_x, move_y, dash_counter,
                   dash_age, dash_origin, anim_window, axis, run_activations,
                   jump_age, rest_run,
                   walk_run,
                   dash_button_pressed, dash_button_last_interrupt_time, tick,
                   accepted, delivered>>

\* update_character calls Character_Update with the value it saw
MainUpdate ==
    /\ pc = "update"
    /\ SetDashChar(Character_Update_Dash(DashChar, joy_direction, pressed_arg = 1))
    /\ dash_age' = NextDashAge(dash_age, dash_counter, pressed_arg = 1)
    /\ dash_origin' = NextDashOrigin(dash_origin, dash_age, DashChar, joy_direction,
                                   pressed_arg = 1)
    /\ rest_run' = NextRestRun(rest_run, state,
                               DirX(joy_direction) = 0 /\ DirY(joy_direction) = 0,
                               pressed_arg = 1)
    /\ walk_run' = NextWalkRun(walk_run, joy_direction, pressed_arg = 1)
    /\ delivered' = delivered + pressed_arg
    /\ pc' = "clear"
    /\ UNCHANGED <<velocity_y, direction, axis, run_activations, jump_age,
                   anim_window, joy_direction,
                   dash_button_pressed, dash_button_last_interrupt_time, tick,
                   pressed_arg, accepted>>

\* update_character clears the flag
MainClear ==
    /\ pc = "clear"
    /\ dash_button_pressed' = 0
    /\ pc' = "delay"
    /\ UNCHANGED <<x, y, velocity_y, state, prev_state, animation_frame,
                   frame_counter, direction, move_x, move_y, dash_counter,
                   dash_age, dash_origin, anim_window, axis, run_activations,
                   jump_age, rest_run,
                   walk_run,
                   joy_direction, dash_button_last_interrupt_time, tick,
                   pressed_arg, accepted, delivered>>

\* render_game (no state of the character changes), then HAL_Delay(30)
MainDelay ==
    /\ pc = "delay"
    /\ tick < MaxTick
    /\ tick' = tick + FRAME_DELAY
    /\ pc' = "read"
    /\ UNCHANGED <<x, y, velocity_y, state, prev_state, animation_frame,
                   frame_counter, direction, move_x, move_y, dash_counter,
                   dash_age, dash_origin, anim_window, axis, run_activations,
                   jump_age, rest_run,
                   walk_run,
                   joy_direction, dash_button_pressed,
                   dash_button_last_interrupt_time, pressed_arg, accepted,
                   delivered>>

NextButton == ButtonISR \/ MainRead \/ MainUpdate \/ MainClear \/ MainDelay

SpecButton == InitDash /\ [][NextButton]_vars

\* One frame of the main loop, simplified listing
UpdateSimple ==
    \E dir \in AxisDirections(axis), dash_pressed \in BOOLEAN :
        /\ SetDashChar(Character_Update_Simple(DashChar, dir, dash_pressed))
        /\ dash_age' = NextDashAge(dash_age, dash_counter, dash_pressed)
        /\ dash_origin' = NextDashOrigin(dash_origin, dash_age, DashChar, dir,
                                       dash_pressed)
        /\ rest_run' = NextRestRun(rest_run, state,
                                   DirX(dir) = 0 /\ DirY(dir) = 0, dash_pressed)
        /\ walk_run' = NextWalkRun(walk_run, dir, dash_pressed)
        /\ joy_direction' = dir
        /\ UNCHANGED <<velocity_y, direction, axis, run_activations, jump_age,
                       anim_window, main_vars>>

NextSimple == UpdateSimple

SpecSimple == InitDash /\ [][NextSimple]_vars


----------------------------------------------------------------------------
(* Properties: position bounds *)

\* C1 (jump variant): after Character_Init and after every Character_Update,
\* whatever the stick and the button did, SCREEN_MIN_X <= x <= SCREEN_MAX_X.
C1_XWithinScreen == SCREEN_MIN_X <= x /\ x <= SCREEN_MAX_X

\* The character has run right until the clamp stopped it at the limit.
C1_Witness == x = SCREEN_MAX_X /\ direction = 1 /\ state = CHAR_RUNNING

InScreen(px, py) ==
    /\ SCREEN_MIN_X <= px /\ px <= SCREEN_MAX_X
    /\ SCREEN_MIN_Y <= py /\ py <= SCREEN_MAX_Y

\* C2 (dash variant, README listing): after every update both coordinates
\* lie inside the screen rectangle, at walking speed and at dash speed; and
\* from every state reached, an update with any of the nine compass symbols
\* (also one off the line the stick was kept on) ends inside it again.
C2_PositionWithinScreen ==
    /\ InScreen(x, y)
    /\ \A dir \in Directions, dash_pressed \in BOOLEAN :
           LET n == Character_Update_Dash(DashChar, dir, dash_pressed)
           IN  InScreen(n.x, n.y)

\* A dash toward the north-east has been stopped in the corner of the screen.
C2_Witness ==
    /\ state = CHAR_DASHING
    /\ move_x = 1 /\ move_y = -1
    /\ x = SCREEN_MAX_X /\ y = SCREEN_MIN_Y

----------------------------------------------------------------------------
(* Properties: dash timing and mode priority *)

\* C3 as claimed (dash variant): the mode is CHAR_DASHING after each of the
\* CHAR_DASH_DURATION updates T .. T+19 counted from the triggering update T.
C3_DashingForDuration ==
    (dash_age >= 1 /\ dash_age <= CHAR_DASH_DURATION) => state = CHAR_DASHING

\* The mode a fixed priority on the post-decrement values would give
PriorityMode(counter, dx, dy) ==
    IF counter > 0 THEN CHAR_DASHING
    ELSE IF dx # 0 \/ dy # 0 THEN CHAR_WALKING
    ELSE CHAR_IDLE

\* C4 as claimed (dash variant): after every update the mode is the one the
\* priority DASHING > WALKING > IDLE gives on the decremented dash_counter
\* and the input vector of that update, whatever the mode was before.
C4_ModeByPriority == state = PriorityMode(dash_counter, move_x, move_y)

----------------------------------------------------------------------------
(* Properties: jump physics and landing *)

\* C6 as claimed (jump variant): airborne on entry makes the mode after the
\* update CHAR_JUMPING, for every stick and button value.
C6_AirborneGivesJumping ==
    \A joy_x \in JoyXValues, jump_button \in BOOLEAN :
        y < GROUND_Y =>
            Character_Update(JumpChar, joy_x, jump_button).state = CHAR_JUMPING

\* C6 amended: airborne on entry and still airborne at the end of the update
\* (the character did not land in it) makes the mode after the update
\* CHAR_JUMPING, for every stick and button value.
C6_StillAirborneGivesJumping ==
    \A joy_x \in JoyXValues, jump_button \in BOOLEAN :
        LET n == Character_Update(JumpChar, joy_x, jump_button)
        IN  (y < GROUND_Y /\ n.y < GROUND_Y) => n.state = CHAR_JUMPING

\* An update entered in the air (mode CHAR_JUMPING, gravity already applied
\* more than once) has ended in the air, in CHAR_JUMPING.
C6_Witness ==
    /\ y < GROUND_Y
    /\ prev_state = CHAR_JUMPING
    /\ velocity_y > CHAR_JUMP_VELOCITY + 2 * CHAR_GRAVITY - F32_ONE
    /\ state = CHAR_JUMPING

\* C7 as claimed (jump variant): from grounded CHAR_IDLE an update with the
\* button pressed ends with velocity_y = CHAR_JUMP_VELOCITY, y = GROUND_Y - 1
\* and mode CHAR_JUMPING.
C7_TakeOffAtJumpVelocity ==
    \A joy_x \in JoyXValues :
        LET n == Character_Update(JumpChar, joy_x, TRUE)
        IN  (state = CHAR_IDLE /\ y = GROUND_Y) =>
                /\ n.velocity_y = CHAR_JUMP_VELOCITY
                /\ n.y = GROUND_Y - 1
                /\ n.state = CHAR_JUMPING

\* C7 amended: gravity and the position step run in the take-off update too,
\* so it ends with velocity_y = -10.0f + 1.1f = -8.9f (-74658608 units),
\* y = GROUND_Y - 1 - 8 = GROUND_Y - 9 and mode CHAR_JUMPING.
C7_TakeOffAfterFirstGravityStep ==
    \A joy_x \in JoyXValues :
        LET n == Character_Update(JumpChar, joy_x, TRUE)
        IN  (state = CHAR_IDLE /\ y = GROUND_Y) =>
                /\ n.velocity_y = -74658608
                /\ n.y = GROUND_Y - 9
                /\ n.state = CHAR_JUMPING

\* The take-off update from CHAR_IDLE has run.
C7_Witness ==
    /\ prev_state = CHAR_IDLE
    /\ state = CHAR_JUMPING
    /\ y = GROUND_Y - 9
    /\ velocity_y = -74658608

\* C8 as claimed (jump variant): once a jump has started, an update with no
\* input never makes y smaller.
C8_YNeverDecreasesInFlight ==
    y < GROUND_Y => Character_Update(JumpChar, 0, FALSE).y >= y

\* C8 amended: once a jump has started, an update with no input never makes
\* y larger while velocity_y is still negative after gravity (the character
\* rises, strictly while velocity_y <= -1.0), and never makes y smaller from
\* the update on which velocity_y has become non-negative (it falls,
\* strictly once velocity_y >= 1.0), until y = GROUND_Y.
C8_YFollowsVelocitySign ==
    LET n == Character_Update(JumpChar, 0, FALSE)
    IN  y < GROUND_Y =>
            /\ n.velocity_y < 0 => n.y <= y
            /\ n.velocity_y <= -F32_ONE => n.y < y
            /\ n.velocity_y >= 0 => n.y >= y
            /\ n.velocity_y >= F32_ONE => n.y > y

\* The character is past the apex and falling: y has grown again.
C8_Witness ==
    /\ state = CHAR_JUMPING
    /\ prev_state = CHAR_JUMPING
    /\ velocity_y > 2 * F32_ONE
    /\ y > GROUND_Y - 37
    /\ y < GROUND_Y

\* C9 as claimed (jump variant): after every update, grounded means
\* velocity_y = 0, the landing update included.
C9_GroundedHasZeroVelocity == y = GROUND_Y => velocity_y = 0

\* C10 (jump variant): the update on which a CHAR_JUMPING character reaches
\* the ground leaves CHAR_JUMPING at once: to CHAR_RUNNING when the
\* horizontal intent of that update is not zero, to CHAR_IDLE otherwise.
C10_LandingPicksModeFromIntent ==
    \A joy_x \in JoyXValues, jump_button \in BOOLEAN :
        LET n == Character_Update(JumpChar, joy_x, jump_button)
        IN  (state = CHAR_JUMPING /\ n.y = GROUND_Y) =>
                n.state = IF InputDirection(joy_x) # 0
                          THEN CHAR_RUNNING ELSE CHAR_IDLE

\* A character has landed with the stick held: CHAR_JUMPING to CHAR_RUNNING.
C10_Witness ==
    /\ prev_state = CHAR_JUMPING
    /\ y = GROUND_Y
    /\ state = CHAR_RUNNING


----------------------------------------------------------------------------
(* Properties: the ability flag *)

\* C11: while the flag handed to Character_Update stays true from one update
\* to the next, the core starts at most one jump for that run of true values.
C11_OneActivationPerHeldFlag == run_activations <= 1

----------------------------------------------------------------------------
(* Properties: animation *)

\* C12 as claimed: after every update a character that is not in the moving
\* mode (CHAR_RUNNING, CHAR_WALKING: both 1) has animation_frame = 0.
C12_FrameZeroOutsideMoving == state # CHAR_RUNNING => animation_frame = 0


----------------------------------------------------------------------------
(* Properties: walking and dashing (dash variant) *)

\* C14 (dash variant): n updates since construction, all with the same
\* compass direction (move_x, move_y) # (0,0) and dash_pressed false, with n
\* small enough that neither screen edge is reached, end at
\* (120 + n * CHAR_SPEED * move_x, 120 + n * CHAR_SPEED * move_y) in
\* CHAR_WALKING, for every such n.
C14_StraightWalkPosition ==
    ( /\ walk_run >= 1
      /\ walk_run < MaxWalkRun
      /\ InitDashCharacter.x + walk_run * CHAR_SPEED < SCREEN_MAX_X
      /\ InitDashCharacter.x - walk_run * CHAR_SPEED > SCREEN_MIN_X
      /\ InitDashCharacter.y + walk_run * CHAR_SPEED < SCREEN_MAX_Y
      /\ InitDashCharacter.y - walk_run * CHAR_SPEED > SCREEN_MIN_Y ) =>
        /\ (move_x # 0 \/ move_y # 0)
        /\ x = InitDashCharacter.x + walk_run * CHAR_SPEED * move_x
        /\ y = InitDashCharacter.y + walk_run * CHAR_SPEED * move_y
        /\ state = CHAR_WALKING
        /\ dash_counter = 0

\* Three updates with direction E from the initial state: (126, 120), WALKING.
C14_Witness ==
    /\ walk_run = 3
    /\ move_x = 1
    /\ move_y = 0
    /\ x = 126
    /\ y = 120
    /\ state = CHAR_WALKING


\* C15 (dash variant): an update entered in CHAR_WALKING with dash_counter 0,
\* with a direction held and dash_pressed true, ends with dash_counter =
\* CHAR_DASH_DURATION - 1 and state CHAR_DASHING, and has moved the character
\* by CHAR_DASH_SPEED along the direction (on each coordinate where that
\* step stays inside the screen).
C15_DashStartsOnTriggerUpdate ==
    (state = CHAR_WALKING /\ dash_counter = 0) =>
        \A dir \in Directions \ {"CENTRE"} :
            LET n  == Character_Update_Dash(DashChar, dir, TRUE)
                tx == x + DirX(dir) * CHAR_DASH_SPEED
                ty == y + DirY(dir) * CHAR_DASH_SPEED
            IN  /\ n.dash_counter = CHAR_DASH_DURATION - 1
                /\ n.state = CHAR_DASHING
                /\ n.prev_state = CHAR_WALKING
                /\ (SCREEN_MIN_X <= tx /\ tx <= SCREEN_MAX_X) => n.x = tx
                /\ (SCREEN_MIN_Y <= ty /\ ty <= SCREEN_MAX_Y) => n.y = ty

\* The scenario of the specification: three steps E, then the dash is
\* triggered with E held: (132, 120), DASHING, 19 updates left.
C15_Witness ==
    /\ dash_age = 1
    /\ prev_state = CHAR_WALKING
    /\ state = CHAR_DASHING
    /\ dash_counter = CHAR_DASH_DURATION - 1
    /\ move_x = 1
    /\ x = 132
    /\ y = 120


\* C16 (dash variant): while dash_counter > 0 on entry, dash_pressed has no
\* effect: the update with dash_pressed true produces the same character as
\* the update with dash_pressed false, and the counter just loses one.
C16_PressDuringDashIgnored ==
    dash_counter > 0 =>
        \A dir \in Directions :
            LET pressed  == Character_Update_Dash(DashChar, dir, TRUE)
                released == Character_Update_Dash(DashChar, dir, FALSE)
            IN  /\ pressed = released
                /\ pressed.dash_counter = dash_counter - 1

\* Ten updates into a dash (any of them may have had dash_pressed true) the
\* counter has gone down by one per update.
C16_Witness ==
    /\ dash_age = 10
    /\ dash_counter = CHAR_DASH_DURATION - 10
    /\ state = CHAR_DASHING

\* C17 (dash variant): after every update, CHAR_DASHING implies
\* dash_counter > 0.
C17_DashingHasPositiveCounter == state = CHAR_DASHING => dash_counter > 0

\* The update on which the counter reached 0 has left CHAR_DASHING, with the
\* stick still held.
C17_Witness ==
    /\ prev_state = CHAR_DASHING
    /\ dash_counter = 0
    /\ state = CHAR_WALKING
    /\ move_x # 0

\* C18 (dash variant): the update entered in CHAR_DASHING whose decrement
\* brings dash_counter to 0 ends in CHAR_WALKING if a direction is held on
\* that update and in CHAR_IDLE if the input is neutral.
C18_ExpiryPicksModeFromInput ==
    (state = CHAR_DASHING /\ dash_counter = 1) =>
        \A dir \in Directions, dash_pressed \in BOOLEAN :
            LET n == Character_Update_Dash(DashChar, dir, dash_pressed)
            IN  /\ n.dash_counter = 0
                /\ n.prev_state = CHAR_DASHING
                /\ n.state = IF dir # "CENTRE" THEN CHAR_WALKING ELSE CHAR_IDLE

\* A dash has expired on an update with the stick centred: DASHING to IDLE.
C18_Witness ==
    /\ prev_state = CHAR_DASHING
    /\ dash_counter = 0
    /\ state = CHAR_IDLE
    /\ move_x = 0
    /\ move_y = 0
    /\ dash_age = CHAR_DASH_DURATION


\* C20 (dash variant): an update whose input vector is (0,0) leaves x and y
\* as they were, whatever dash_counter and dash_pressed are.
C20_NeutralInputKeepsPosition ==
    \A dash_pressed \in BOOLEAN :
        LET n == Character_Update_Dash(DashChar, "CENTRE", dash_pressed)
        IN  n.x = x /\ n.y = y

\* A dash is running with the stick centred, away from the start position.
C20_Witness ==
    /\ state = CHAR_DASHING
    /\ dash_counter > 0
    /\ dash_age > 1
    /\ prev_state = CHAR_DASHING
    /\ move_x = 0
    /\ move_y = 0
    /\ x # InitDashCharacter.x

----------------------------------------------------------------------------
(* Properties: the jump button in the air (jump variant) *)

\* C19 (jump variant): when y < GROUND_Y on entry, the button changes
\* nothing: the update with jump_button true produces the same character as
\* the update with jump_button false, and velocity_y is the entry value plus
\* gravity (capped), not CHAR_JUMP_VELOCITY plus gravity.
C19_NoJumpInMidAir ==
    y < GROUND_Y =>
        \A joy_x \in JoyXValues :
            LET pressed  == Character_Update(JumpChar, joy_x, TRUE)
                released == Character_Update(JumpChar, joy_x, FALSE)
                v        == F32Add(velocity_y, CHAR_GRAVITY)
            IN  /\ pressed = released
                /\ pressed.velocity_y =
                       IF v > CHAR_MAX_FALL_VELOCITY
                       THEN CHAR_MAX_FALL_VELOCITY ELSE v

\* The button flag has stayed true since take-off and the character is on
\* its way down: one jump only.
C19_Witness ==
    /\ run_activations = 1
    /\ y < GROUND_Y
    /\ velocity_y > 0
    /\ state = CHAR_JUMPING


----------------------------------------------------------------------------
(* Properties: the dash with a neutral stick (dash variant) *)

\* C21 (dash variant): a dash triggered with the stick centred enters
\* CHAR_DASHING on that update; every update with the stick centred while
\* dash_counter > 0 takes one off the counter, keeps CHAR_DASHING as long as
\* the counter is still positive, and leaves the position where it was.
C21_NeutralDashBurnsTimer ==
    /\ dash_counter = 0 =>
           LET n == Character_Update_Dash(DashChar, "CENTRE", TRUE)
           IN  /\ n.state = CHAR_DASHING
               /\ n.dash_counter = CHAR_DASH_DURATION - 1
               /\ n.x = x
               /\ n.y = y
    /\ dash_counter > 0 =>
           \A dash_pressed \in BOOLEAN :
               LET n == Character_Update_Dash(DashChar, "CENTRE", dash_pressed)
               IN  /\ n.dash_counter = dash_counter - 1
                   /\ n.dash_counter > 0 => n.state = CHAR_DASHING
                   /\ n.x = x
                   /\ n.y = y

\* The first two updates after construction: the dash was triggered on the
\* first with the stick centred (the second found CHAR_DASHING), and the
\* character is still at the start position with 18 updates left.
C21_Witness ==
    /\ frame_counter = 2
    /\ dash_age = 2
    /\ prev_state = CHAR_DASHING
    /\ state = CHAR_DASHING
    /\ move_x = 0
    /\ move_y = 0
    /\ dash_counter = CHAR_DASH_DURATION - 2
    /\ x = InitDashCharacter.x
    /\ y = InitDashCharacter.y


----------------------------------------------------------------------------
(* Properties: out-of-range direction (dash variant) *)

\* C22 (dash variant): an update whose joy->direction is none of the nine
\* compass symbols completes as a neutral update: the input vector it
\* records is (0,0) and x and y keep their values.
C22_OutOfRangeIsNeutral ==
    [][joy_direction' \notin Directions =>
           /\ move_x' = 0
           /\ move_y' = 0
           /\ x' = x
           /\ y' = y]_vars

\* An update with an out-of-range direction has run in the middle of a dash,
\* away from the start position.
C22_Witness ==
    /\ joy_direction \in OutOfRangeDirections
    /\ move_x = 0
    /\ move_y = 0
    /\ state = CHAR_DASHING
    /\ dash_counter > 0
    /\ x # InitDashCharacter.x


----------------------------------------------------------------------------
(* Properties: the hand-off of the button flag *)

\* C23: every press the interrupt handler accepted is seen as true by
\* exactly one Character_Update call: no call sees a press that was not
\* accepted, and whenever main() is back at the top of its loop with the flag
\* clear, as many calls have seen true as presses were accepted.
C23_EveryPressDeliveredOnce ==
    /\ delivered <= accepted
    /\ (pc = "read" /\ dash_button_pressed = 0) => delivered = accepted


----------------------------------------------------------------------------
(* Properties: the flight ends (jump variant) *)

\* C24 (jump variant): whenever the character is in the air, whatever the
\* stick and the button do afterwards, some later update ends with
\* y = GROUND_Y and a state other than CHAR_JUMPING.
C24_AirborneEventuallyLands ==
    (y < GROUND_Y) ~> (y = GROUND_Y /\ state # CHAR_JUMPING)

\* The update that ended a flight with the stick centred: JUMPING to IDLE.
C24_Witness ==
    /\ prev_state = CHAR_JUMPING
    /\ state = CHAR_IDLE
    /\ y = GROUND_Y
    /\ velocity_y > 0


----------------------------------------------------------------------------
(* Properties: construction and the set of modes (jump variant) *)

\* C25: whatever the record held before, after Character_Init it holds
\* x = 120, y = GROUND_Y, velocity_y = 0, state = prev_state = CHAR_IDLE,
\* animation_frame = 0, frame_counter = 0, direction = 0.
C25_InitGivesSpawnState ==
    pc = "read" =>
        /\ x = 120
        /\ y = GROUND_Y
        /\ velocity_y = 0
        /\ state = CHAR_IDLE
        /\ prev_state = CHAR_IDLE
        /\ animation_frame = 0
        /\ frame_counter = 0
        /\ direction = 0

\* Character_Init has run.
C25_Witness ==
    /\ pc = "read"
    /\ JumpChar = InitCharacter


\* C26 (jump variant): after Character_Init and after every Character_Update
\* state is one of the three modes CHAR_IDLE, CHAR_RUNNING, CHAR_JUMPING,
\* which are three different values.
C26_StateIsOneOfThreeModes ==
    /\ state \in {CHAR_IDLE, CHAR_RUNNING, CHAR_JUMPING}
    /\ Cardinality({CHAR_IDLE, CHAR_RUNNING, CHAR_JUMPING}) = 3

\* The character took off while running: RUNNING to JUMPING.
C26_Witness ==
    /\ prev_state = CHAR_RUNNING
    /\ state = CHAR_JUMPING
    /\ y < GROUND_Y

\* C27 (jump variant): after every update the state chosen by the switch is
\* the one the memoryless rule gives for the new y and the intent of that
\* update, and in every reachable state CHAR_JUMPING holds exactly when
\* y < GROUND_Y.
C27_SwitchAgreesWithMemorylessRule ==
    /\ state = CHAR_JUMPING <=> y < GROUND_Y
    /\ \A joy_x \in JoyXValues, jump_button \in BOOLEAN :
           LET n == Character_Update(JumpChar, joy_x, jump_button)
           IN  n.state = MemorylessMode(n.y, InputDirection(joy_x))

\* The character took off from standing with the stick held: the switch
\* went from IDLE past RUNNING to JUMPING on one update.
C27_Witness ==
    /\ prev_state = CHAR_IDLE
    /\ state = CHAR_JUMPING
    /\ direction # 0
    /\ y = GROUND_Y - 9
    /\ x # InitCharacter.x


----------------------------------------------------------------------------
(* Properties: the vertical step (jump variant) *)

\* The whole part of a velocity, rounded toward minus infinity
FloorOf(v) == v \div F32_ONE

\* The whole part of a velocity, rounded toward zero
TowardZeroOf(v) == IF v >= 0 THEN v \div F32_ONE ELSE -((-v) \div F32_ONE)

\* y at the start of the airborne step of an update: one above the ground
\* line if the jump starts on this update
FlightStartY(jump_button) == IF y >= GROUND_Y THEN GROUND_Y - 1 ELSE y

\* C28 as claimed (jump variant): on every airborne update y changes by
\* floor(velocity_y), velocity_y being the value after gravity and the cap,
\* and is then clamped to GROUND_Y.
C28_YStepIsFloorOfVelocity ==
    \A joy_x \in JoyXValues, jump_button \in BOOLEAN :
        (y < GROUND_Y \/ jump_button) =>
            LET n  == Character_Update(JumpChar, joy_x, jump_button)
                y1 == FlightStartY(jump_button) + FloorOf(n.velocity_y)
            IN  n.y = IF y1 > GROUND_Y THEN GROUND_Y ELSE y1

\* C28 amended (jump variant): on every airborne update y changes by
\* velocity_y (after gravity and the cap) with its fraction cut off, that is
\* rounded toward zero: up for rising, down for falling velocities; then y
\* is clamped to GROUND_Y.
C28_YStepIsTruncatedVelocity ==
    \A joy_x \in JoyXValues, jump_button \in BOOLEAN :
        (y < GROUND_Y \/ jump_button) =>
            LET n  == Character_Update(JumpChar, joy_x, jump_button)
                y1 == FlightStartY(jump_button) + TowardZeroOf(n.velocity_y)
            IN  n.y = IF y1 > GROUND_Y THEN GROUND_Y ELSE y1

\* The second update of a jump: the velocity is about -7.8 and y went from
\* 191 to 184 (floor would give 183).
C28_Witness ==
    /\ state = CHAR_JUMPING
    /\ prev_state = CHAR_JUMPING
    /\ velocity_y = -65431140
    /\ y = 184


----------------------------------------------------------------------------
(* Properties: the vertical velocity (jump variant) *)

\* Falling speeds at and just under the cap: 13.0, 14.5 and 15.0
HighFallVelocities ==
    {13 * F32_ONE, (29 * F32_ONE) \div 2, CHAR_MAX_FALL_VELOCITY}

\* velocity_y after the airborne step that starts with velocity v0
CappedFall(v0) ==
    LET v1 == F32Add(v0, CHAR_GRAVITY)
    IN  IF v1 > CHAR_MAX_FALL_VELOCITY THEN CHAR_MAX_FALL_VELOCITY ELSE v1

\* C29 (jump variant): after every update velocity_y <= CHAR_MAX_FALL_VELOCITY;
\* on every airborne update velocity_y grows by CHAR_GRAVITY (a float
\* addition) unless that exceeds the cap, and then it equals the cap. The
\* second part is checked for the velocity the character has, where a jump
\* that starts on this update starts from CHAR_JUMP_VELOCITY, and in mid-air
\* also for falling speeds near the cap.
C29_VelocityCappedAndGrowsByGravity ==
    /\ velocity_y <= CHAR_MAX_FALL_VELOCITY
    /\ \A joy_x \in JoyXValues, jump_button \in BOOLEAN :
           (y < GROUND_Y \/ jump_button) =>
               LET n  == Character_Update(JumpChar, joy_x, jump_button)
                   v0 == IF y >= GROUND_Y THEN CHAR_JUMP_VELOCITY ELSE velocity_y
               IN  n.velocity_y = CappedFall(v0)
    /\ \A v \in HighFallVelocities :
           y < GROUND_Y =>
               LET n == Character_Update([JumpChar EXCEPT !.velocity_y = v], 0, FALSE)
               IN  /\ n.velocity_y = CappedFall(v)
                   /\ n.velocity_y <= CHAR_MAX_FALL_VELOCITY

\* A fall in its last updates: the velocity has grown from -10 to above 8
\* by steps of CHAR_GRAVITY and the character is still in the air.
C29_Witness ==
    /\ y < GROUND_Y
    /\ velocity_y > 8 * F32_ONE
    /\ velocity_y < 9 * F32_ONE
    /\ state = CHAR_JUMPING


----------------------------------------------------------------------------
(* Properties: the ground line (jump variant) *)

\* C30 (jump variant): after every update y <= GROUND_Y, for every input
\* sequence: no update leaves the character below the ground line.
C30_NeverBelowGround ==
    /\ y <= GROUND_Y
    /\ \A joy_x \in JoyXValues, jump_button \in BOOLEAN :
           Character_Update(JumpChar, joy_x, jump_button).y <= GROUND_Y

\* The landing update of a jump: from y = 198 the step of 9 would end at
\* 207 and the character is put on the ground line instead.
C30_Witness ==
    /\ y = GROUND_Y
    /\ velocity_y > 9 * F32_ONE
    /\ prev_state = CHAR_JUMPING
    /\ state # CHAR_JUMPING


----------------------------------------------------------------------------
(* Properties: the height of a jump (jump variant) *)

\* C31 (jump variant, CHAR_JUMP_VELOCITY -10.0, CHAR_GRAVITY 1.1,
\* GROUND_Y 200): for every input sequence, the jump button held for ever
\* included, y >= GROUND_Y - 37 after every update: repeated jumps do not
\* add up.
C31_NeverAboveOneJump ==
    /\ y >= GROUND_Y - 37
    /\ \A joy_x \in JoyXValues, jump_button \in BOOLEAN :
           Character_Update(JumpChar, joy_x, jump_button).y >= GROUND_Y - 37

\* The top of the second of two jumps made with the button flag held
C31_Witness ==
    /\ y = GROUND_Y - 37
    /\ run_activations = 2
    /\ state = CHAR_JUMPING


----------------------------------------------------------------------------
(* Properties: the length of a jump (jump variant) *)

\* C32 (jump variant, CHAR_JUMP_VELOCITY -10.0, CHAR_GRAVITY 1.1,
\* GROUND_Y 200): a jump lasts the same number of updates whatever the
\* horizontal input: after each of the first 17 updates, the take-off update
\* being the first, the mode is CHAR_JUMPING and the character is in the
\* air; the 18th update puts it on the ground line in another mode.
C32_JumpLastsEighteenUpdates ==
    /\ jump_age <= 18
    /\ jump_age \in 1..17 => (state = CHAR_JUMPING /\ y < GROUND_Y)
    /\ jump_age = 18 => (y = GROUND_Y /\ state # CHAR_JUMPING)

\* The landing update of a jump steered to the left all the way
C32_Witness ==
    /\ jump_age = 18
    /\ y = GROUND_Y
    /\ state = CHAR_RUNNING
    /\ x = 120 - 18 * CHAR_RUN_SPEED


----------------------------------------------------------------------------
(* Properties: the screen rectangle (dash variants) *)

\* The value of lo..hi nearest to v
NearestIn(v, lo, hi) == IF v < lo THEN lo ELSE IF v > hi THEN hi ELSE v

\* C33 (dash variant, simplified listing, rectangle 20..220): on every
\* update with a direction, each coordinate becomes the tentative value
\* coordinate + d * speed if that is inside the rectangle and the nearest
\* boundary value if it is outside, x and y independently of each other.
C33_OutsideMoveCommitsBoundary ==
    \A dir \in Directions, dash_pressed \in BOOLEAN :
        (DirX(dir) # 0 \/ DirY(dir) # 0) =>
            LET n     == Character_Update_Simple(DashChar, dir, dash_pressed)
                speed == CurrentSpeed(DashTrigger(dash_counter, dash_pressed))
            IN  /\ n.x = NearestIn(x + DirX(dir) * speed, SIMPLE_MIN, SIMPLE_MAX)
                /\ n.y = NearestIn(y + DirY(dir) * speed, SIMPLE_MIN, SIMPLE_MAX)


----------------------------------------------------------------------------
(* Properties: the length of a dash (dash variant) *)

\* The position after a step of length speed in direction dir, kept inside
\* the screen
StepFrom(px, py, dir, speed) ==
    <<NearestIn(px + DirX(dir) * speed, SCREEN_MIN_X, SCREEN_MAX_X),
      NearestIn(py + DirY(dir) * speed, SCREEN_MIN_Y, SCREEN_MAX_Y)>>

\* C34 (dash variant): after a dash trigger CHAR_DASH_SPEED is used on
\* exactly CHAR_DASH_DURATION consecutive updates, the triggering one
\* included, and CHAR_SPEED on the update after them unless that one triggers
\* again; a dash with one direction held all the way, whose end point is
\* inside the screen, moves the character by CHAR_DASH_DURATION *
\* CHAR_DASH_SPEED along that direction.
C34_DashSpeedForTwentyUpdates ==
    /\ \A dir \in Directions \ {"CENTRE"}, dash_pressed \in BOOLEAN :
           LET n == Character_Update_Dash(DashChar, dir, dash_pressed)
           IN  /\ (dash_pressed /\ dash_age \in {0, CHAR_DASH_DURATION}) =>
                      <<n.x, n.y>> = StepFrom(x, y, dir, CHAR_DASH_SPEED)
               /\ dash_age \in 1..(CHAR_DASH_DURATION - 1) =>
                      <<n.x, n.y>> = StepFrom(x, y, dir, CHAR_DASH_SPEED)
               /\ (~dash_pressed /\ dash_age = CHAR_DASH_DURATION) =>
                      <<n.x, n.y>> = StepFrom(x, y, dir, CHAR_SPEED)
    /\ (dash_age = CHAR_DASH_DURATION /\ dash_origin # <<>>) =>
           LET end_x == dash_origin[1] + CHAR_DASH_DURATION * CHAR_DASH_SPEED * move_x
               end_y == dash_origin[2] + CHAR_DASH_DURATION * CHAR_DASH_SPEED * move_y
           IN  (/\ end_x \in SCREEN_MIN_X..SCREEN_MAX_X
                /\ end_y \in SCREEN_MIN_Y..SCREEN_MAX_Y)
               => (x = end_x /\ y = end_y)

\* The end of a dash to the east that began at (100,120): 20 updates later
\* the character is at (220,120) and the timer has run out.
C34_Witness ==
    /\ dash_age = CHAR_DASH_DURATION
    /\ dash_origin = <<100, 120>>
    /\ x = 220
    /\ y = 120
    /\ dash_counter = 0


----------------------------------------------------------------------------
(* Properties: the range of the dash timer (dash variant) *)

\* C35 (dash variant): dash_counter, an 8-bit unsigned value, is in
\* 0..CHAR_DASH_DURATION - 1 after every update; an update takes one off the
\* counter only when it is > 0 (after the trigger has loaded it), and leaves
\* a counter of 0 at 0.
C35_DashCounterInRange ==
    /\ dash_counter \in 0..(CHAR_DASH_DURATION - 1)
    /\ \A dir \in Directions, dash_pressed \in BOOLEAN :
           LET n      == Character_Update_Dash(DashChar, dir, dash_pressed)
               loaded == IF dash_pressed /\ dash_counter = 0
                         THEN CHAR_DASH_DURATION
                         ELSE dash_counter
           IN  /\ n.dash_counter \in 0..(CHAR_DASH_DURATION - 1)
               /\ n.dash_counter = IF loaded > 0 THEN loaded - 1 ELSE 0

\* The top of the range: a dash that has just been triggered from a walk,
\* away from the start position; the counter was loaded with 20 and is 19
C35_Witness ==
    /\ dash_counter = CHAR_DASH_DURATION - 1
    /\ dash_age = 1
    /\ prev_state = CHAR_WALKING
    /\ state = CHAR_DASHING
    /\ x # 120


----------------------------------------------------------------------------
(* Properties: steering in the air (jump variant) *)

\* Vertical situations a character can be in: standing in either ground
\* mode, rising at take-off speed, at the top of a jump, falling
VerticalSituations ==
    {[y |-> GROUND_Y, velocity_y |-> 0, state |-> CHAR_IDLE],
     [y |-> GROUND_Y, velocity_y |-> 0, state |-> CHAR_RUNNING],
     [y |-> GROUND_Y - 1, velocity_y |-> CHAR_JUMP_VELOCITY, state |-> CHAR_JUMPING],
     [y |-> GROUND_Y - 37, velocity_y |-> 0, state |-> CHAR_JUMPING],
     [y |-> GROUND_Y - 10, velocity_y |-> 8 * F32_ONE, state |-> CHAR_JUMPING]}

\* C36 (jump variant): the x after Character_Update depends on the x before
\* and on the joystick value only: it is the same with and without the jump
\* button, and the same if the character were in any other vertical
\* situation (on the ground or in the air, in any mode).
C36_XIndependentOfVerticalState ==
    \A joy_x \in JoyXValues :
        LET ref == Character_Update(JumpChar, joy_x, FALSE).x
        IN  /\ Character_Update(JumpChar, joy_x, TRUE).x = ref
            /\ \A v \in VerticalSituations :
                   Character_Update([JumpChar EXCEPT !.y = v.y,
                                                     !.velocity_y = v.velocity_y,
                                                     !.state = v.state],
                                    joy_x, TRUE).x = ref

\* Steered in the air: the character is at the top of a jump, eight steps to
\* the left of where it took off from the start position.
C36_Witness ==
    /\ y = GROUND_Y - 37
    /\ state = CHAR_JUMPING
    /\ direction = -1
    /\ x = 120 - 8 * CHAR_RUN_SPEED
    /\ jump_age = 8


----------------------------------------------------------------------------
(* Properties: the direction fields *)

\* C37 as claimed, for the dash variant's move_x / move_y: an update with
\* neutral input leaves the move direction as it was.
C37_NeutralKeepsMoveDirection ==
    \A dash_pressed \in BOOLEAN :
        LET n == Character_Update_Dash(DashChar, "CENTRE", dash_pressed)
        IN  n.move_x = move_x /\ n.move_y = move_y

\* The jump variant's direction field after an update from any of the three
\* values it can hold, in any vertical situation: the input direction if
\* that is nonzero, the old value if the input is neutral
JumpDirectionIsLastNonzero ==
    \A d0 \in {-1, 0, 1}, joy_x \in JoyXValues, jump_button \in BOOLEAN,
       v \in VerticalSituations :
        LET c == [InitCharacter EXCEPT !.direction = d0, !.y = v.y,
                                       !.velocity_y = v.velocity_y,
                                       !.state = v.state]
            n == Character_Update(c, joy_x, jump_button)
        IN  n.direction = IF InputDirection(joy_x) # 0
                          THEN InputDirection(joy_x)
                          ELSE d0

\* C37 amended: the jump variant's direction field holds the last nonzero
\* input direction (a neutral update leaves it unchanged, also in the air,
\* and no update sets it back to 0); the dash variant's move_x / move_y hold
\* the input direction of the latest update, (0,0) after a neutral one.
C37_DirectionKeptMoveVectorCurrent ==
    /\ JumpDirectionIsLastNonzero
    /\ move_x = DirX(joy_direction)
    /\ move_y = DirY(joy_direction)
    /\ \A dir \in Directions, dash_pressed \in BOOLEAN :
           LET n == Character_Update_Dash(DashChar, dir, dash_pressed)
           IN  n.move_x = DirX(dir) /\ n.move_y = DirY(dir)

\* The stick was released after a walk: the character is away from the
\* start position, at rest, and the move direction is (0,0).
C37_Witness ==
    /\ joy_direction = "CENTRE"
    /\ move_x = 0
    /\ move_y = 0
    /\ x # 120
    /\ prev_state = CHAR_WALKING
    /\ state = CHAR_IDLE


----------------------------------------------------------------------------
(* Properties: prev_state *)

\* C38 (jump variant): after every Character_Update prev_state is the value
\* state had on entry, and nothing the update produces depends on the
\* prev_state it found: with any other prev_state on entry the result is the
\* same record.
C38_PrevStateIsEntryState ==
    \A joy_x \in JoyXValues, jump_button \in BOOLEAN :
        LET n == Character_Update(JumpChar, joy_x, jump_button)
        IN  /\ n.prev_state = state
            /\ \A p \in {CHAR_IDLE, CHAR_RUNNING, CHAR_JUMPING} :
                   Character_Update([JumpChar EXCEPT !.prev_state = p],
                                    joy_x, jump_button) = n

\* The take-off from a run: the mode is CHAR_JUMPING and prev_state still
\* says CHAR_RUNNING.
C38_Witness ==
    /\ prev_state = CHAR_RUNNING
    /\ state = CHAR_JUMPING
    /\ jump_age = 1


----------------------------------------------------------------------------
(* Properties: the run animation (jump variant) *)

\* C39 (jump variant): over any RUN_ANIM_PERIOD (8) consecutive updates that
\* all end in CHAR_RUNNING, animation_frame changes exactly once; an update
\* that ends in CHAR_RUNNING changes animation_frame only if it wraps
\* frame_counter to 0, and then to the other of the two frames.
C39_RunFrameAdvancesOncePerEight ==
    /\ Len(anim_window) = RUN_ANIM_PERIOD =>
           Cardinality({i \in 1..RUN_ANIM_PERIOD : anim_window[i]}) = 1
    /\ \A joy_x \in JoyXValues, jump_button \in BOOLEAN :
           LET n == Character_Update(JumpChar, joy_x, jump_button)
           IN  (n.state = CHAR_RUNNING /\ n.animation_frame # animation_frame) =>
                   /\ n.frame_counter = 0
                   /\ n.animation_frame = (animation_frame + 1) % 2

\* Eight updates in CHAR_RUNNING of which the third changed the frame, the
\* frame now being the second one
C39_Witness ==
    /\ Len(anim_window) = RUN_ANIM_PERIOD
    /\ anim_window[3]
    /\ animation_frame = 1
    /\ state = CHAR_RUNNING


----------------------------------------------------------------------------
(* Properties: the animation counters (jump variant) *)

\* C40 (jump variant): after every update frame_counter is in 0..7 and
\* animation_frame is 0 or 1; every update, in whatever mode it starts and
\* ends, moves frame_counter one step round the cycle 0..7: no change of
\* mode resets it.
C40_CountersInRangeCounterFreeRunning ==
    /\ frame_counter \in 0..(RUN_ANIM_PERIOD - 1)
    /\ animation_frame \in {0, 1}
    /\ \A joy_x \in JoyXValues, jump_button \in BOOLEAN :
           LET n == Character_Update(JumpChar, joy_x, jump_button)
           IN  /\ n.frame_counter = (frame_counter + 1) % RUN_ANIM_PERIOD
               /\ n.frame_counter \in 0..(RUN_ANIM_PERIOD - 1)
               /\ n.animation_frame \in {0, 1}

\* A take-off in the middle of the cycle: the mode has just changed from
\* CHAR_RUNNING to CHAR_JUMPING and the counter went on from 4 to 5, with
\* the second running frame still set.
C40_Witness ==
    /\ prev_state = CHAR_RUNNING
    /\ state = CHAR_JUMPING
    /\ frame_counter = 5
    /\ animation_frame = 1

============================================================================
